---- MODULE Spec2Model ----
(***************************************************************************)
(* HumanizerWithDetector: the React component of                           *)
(* src/humanizador_avanzado_con_ai_detector_react.jsx as a state machine.  *)
(*                                                                         *)
(* A text (a JavaScript string) is a sequence of tokens.  A token is one   *)
(* of: an ordinary character, "{", "}", ",", or a JSON member              *)
(* ("probability": value / "explanation": "..."), so that trim, indexOf,   *)
(* lastIndexOf, substring and JSON.parse are computed on the text itself.  *)
(* Every activation of handleHumanize is a record of the sequence runs     *)
(* with its own closure (the input, tone and key it captured).             *)
(***************************************************************************)
EXTENDS Integers, Sequences, FiniteSets

\* ------------------------------------------------------------------ bounds
\* longest text the user types into the textarea
MaxInputLen == 1
\* longest run of noise characters before / after the braces of a detection text
MaxNoise == 1

\* ------------------------------------------------------------------ tokens
Tok(t, k, n, c) == [t |-> t, k |-> k, n |-> n, c |-> c]
Ch(c) == Tok("ch", "", 0, c)
LB == Tok("lb", "", 0, "{")
RB == Tok("rb", "", 0, "}")
Comma == Tok("comma", "", 0, ",")
\* the member "probability": <value>, value a JSON value of kind k
ProbTok(k, n, c) == Tok("prob", k, n, c)
\* the member "explanation": "<c>"
ExplTok(c) == Tok("expl", "str", 0, c)

IsSpace(tok) == tok.t = "ch" /\ tok.c = " "

\* JavaScript values held by score: null, undefined, a number, a string
JsVal(k, n, c) == [k |-> k, n |-> n, c |-> c]
JsNull == JsVal("null", 0, "")
JsUndefined == JsVal("undefined", 0, "")
JsInt(n) == JsVal("int", n, "")

\* a key that is absent (undefined / getItem's null)
NoKey == "<null>"
\* !apiKey
Falsy(key) == key = NoKey \/ key = ""

\* ------------------------------------------------------- string operations
RECURSIVE TrimStart(_)
TrimStart(s) ==
  IF s # <<>> /\ IsSpace(Head(s)) THEN TrimStart(Tail(s)) ELSE s

RECURSIVE TrimEnd(_)
TrimEnd(s) ==
  IF s # <<>> /\ IsSpace(s[Len(s)]) THEN TrimEnd(SubSeq(s, 1, Len(s) - 1)) ELSE s

\* String.prototype.trim
Trim(s) == TrimEnd(TrimStart(s))

\* String.prototype.indexOf for a one-character needle: 0-based, -1 when absent
IndexOf(s, kind) ==
  LET hits == {i \in 1..Len(s) : s[i].t = kind}
  IN  IF hits = {} THEN -1
      ELSE (CHOOSE i \in hits : \A j \in hits : i <= j) - 1

\* String.prototype.lastIndexOf
LastIndexOf(s, kind) ==
  LET hits == {i \in 1..Len(s) : s[i].t = kind}
  IN  IF hits = {} THEN -1
      ELSE (CHOOSE i \in hits : \A j \in hits : i >= j) - 1

Min(a, b) == IF a <= b THEN a ELSE b
Max(a, b) == IF a >= b THEN a ELSE b
Clamp(i, n) == Max(0, Min(i, n))

\* String.prototype.substring(a, b): arguments clamped to 0..length and
\* swapped when a > b
Substring(s, a, b) ==
  LET lo == Min(Clamp(a, Len(s)), Clamp(b, Len(s)))
      hi == Max(Clamp(a, Len(s)), Clamp(b, Len(s)))
  IN  SubSeq(s, lo + 1, hi)

\* the text of a decoded JSON string
StrText(c) == IF c = "" THEN <<>> ELSE <<Ch(c)>>

\* ------------------------------------------------------------- JSON.parse
IsMember(tok) == tok.t = "prob" \/ tok.t = "expl"

\* the tokens of s that are not whitespace
RECURSIVE Significant(_)
Significant(s) ==
  IF s = <<>> THEN <<>>
  ELSE IF IsSpace(Head(s)) THEN Significant(Tail(s))
  ELSE <<Head(s)>> \o Significant(Tail(s))

\* member (, member)*
MemberList(inner) ==
  /\ Len(inner) % 2 = 1
  /\ \A i \in 1..Len(inner) :
       IF i % 2 = 1 THEN IsMember(inner[i]) ELSE inner[i].t = "comma"

\* JSON.parse of a text.  ok: the text is one object literal, members: its
\* members in order.  Anything else (a syntax error, which the caller
\* swallows, or a value that is not an object and so has no probability
\* property) is ok = FALSE.
JsonParse(s) ==
  LET sig == Significant(s)
      n == Len(sig)
      inner == SubSeq(sig, 2, n - 1)
      wellFormed == /\ n >= 2
                    /\ sig[1].t = "lb"
                    /\ sig[n].t = "rb"
                    /\ (inner = <<>> \/ MemberList(inner))
  IN  IF wellFormed
      THEN [ok |-> TRUE, members |-> SelectSeq(inner, IsMember)]
      ELSE [ok |-> FALSE, members |-> <<>>]

\* parsed.probability: the value of the last "probability" member, or undefined
Probability(members) ==
  LET hits == {i \in 1..Len(members) : members[i].t = "prob"}
  IN  IF hits = {} THEN JsUndefined
      ELSE LET m == members[CHOOSE i \in hits : \A j \in hits : i >= j]
           IN  JsVal(m.k, m.n, m.c)

\* parsed.explanation || ""
Explanation(members) ==
  LET hits == {i \in 1..Len(members) : members[i].t = "expl"}
  IN  IF hits = {} THEN <<>>
      ELSE StrText(members[CHOOSE i \in hits : \A j \in hits : i >= j].c)

\* lines 121-133: extract {...} from the detection text and parse it
ParseDetect(detectText) ==
  LET start == IndexOf(detectText, "lb")
      end == LastIndexOf(detectText, "rb")
  IN  IF start # -1 /\ end # -1
      THEN JsonParse(Substring(detectText, start, end + 1))
      ELSE [ok |-> FALSE, members |-> <<>>]

\* a fallback that drops the detection text instead of showing it
DetectResultNoRaw(detectText) ==
  LET parsed == ParseDetect(detectText)
  IN  IF parsed.ok /\ Probability(parsed.members) # JsUndefined
      THEN [score |-> Probability(parsed.members),
            reason |-> Explanation(parsed.members)]
      ELSE [score |-> JsNull, reason |-> <<>>]

\* lines 135-142: what setScore and setReason are called with
DetectResult(detectText) ==
  LET parsed == ParseDetect(detectText)
  IN  IF parsed.ok /\ Probability(parsed.members) # JsUndefined
      THEN [score |-> Probability(parsed.members),
            reason |-> Explanation(parsed.members)]
      ELSE [score |-> JsNull, reason |-> detectText]

\* ------------------------------------------------------------------ prompts
\* a rewrite template without the "Usa un tono: ${tone}" sentence
buildHumanizePromptNoTone(text, tn) ==
  [template |-> "humanize", tone |-> "", text |-> text]

\* the template strings of lines 55 and 59: the fixed instruction, the tone
\* spliced into it (rewrite only) and the text inside the """ block
buildHumanizePrompt(text, tn) ==
  [template |-> "humanize", tone |-> tn, text |-> text]

buildDetectPrompt(text) ==
  [template |-> "detect", tone |-> "", text |-> text]

\* lines 99-104
RewritePayload(text, tn, temp) ==
  [model |-> "gpt-4o-mini", content |-> buildHumanizePrompt(text, tn),
   temperature |-> temp, max_tokens |-> 1200]

\* ------------------------------------------------------------------- state
VARIABLES
  input,           \* useState(""), line 9
  output,          \* line 10
  score,           \* line 11
  reason,          \* line 12
  loading,         \* line 13
  mode,            \* line 14
  tone,            \* line 15
  temperature,     \* line 16, in tenths
  apiKeyPrompted,  \* line 17
  globalKey,       \* window.__OPENAI_API_KEY__
  localKey,        \* localStorage "openai_key"
  sessionKey,      \* sessionStorage "openai_key"
  runs,            \* the activations of handleHumanize suspended at an await
  last             \* the latest step: what ran, what the user was shown

vars == <<input, output, score, reason, loading, mode, tone, temperature,
          apiKeyPrompted, globalKey, localKey, sessionKey, runs, last>>

\* ------------------------------------------------------------ input domains
TextsOver(chars, n) == UNION {[1..k -> chars] : k \in 0..n}

\* what the user can type into the textarea
InputTexts == TextsOver({Ch(" "), Ch("a")}, MaxInputLen)

Modes == {"humanize", "paraphrase"}
Tones == {"natural", "formal"}
Temperatures == {0, 7}

\* what prompt() returns: null (cancelled), "" (confirmed empty), a key
PromptAnswers == {NoKey, "", "k1", "k2"}

\* choices[0].message.content of a rewrite response
RewriteContents == {<<>>, <<Ch(" ")>>, <<Ch("h")>>, <<Ch(" "), Ch("h"), Ch(" ")>>}

ProbValues ==
  {JsInt(0), JsInt(42), JsInt(100), JsInt(150), JsInt(-1),
   JsVal("frac", 42, ""), JsVal("str", 0, "seventy"), JsNull}
ExplValues == {"ok", ""}

ProbOf(v) == ProbTok(v.k, v.n, v.c)

\* texts between (and including) the braces of a detection answer
Bodies ==
  {<<LB, ProbOf(v), Comma, ExplTok(e), RB>> : v \in ProbValues, e \in ExplValues}
  \cup {<<LB, ProbOf(v), RB>> : v \in ProbValues}
  \cup {<<LB, ExplTok(e), RB>> : e \in ExplValues}
  \cup {<<LB, RB>>,
        <<LB, ExplTok("ok"), Comma, ProbOf(JsInt(42)), RB>>,
        <<LB, ProbOf(JsInt(42)), Comma, ProbOf(JsInt(150)), RB>>,
        <<LB, Ch(" "), ProbOf(JsInt(42)), Ch(" "), Comma, Ch(" "), ExplTok("ok"), RB>>,
        <<LB, ProbOf(JsInt(42)), ExplTok("ok"), RB>>,
        <<LB, ProbOf(JsInt(42)), Comma, RB>>,
        <<LB, Ch("x"), RB>>,
        <<LB, ProbOf(JsInt(42)), RB, LB, ProbOf(JsInt(42)), RB>>,
        <<LB, LB, ProbOf(JsInt(42)), RB, RB>>,
        <<RB, LB>>, <<RB, Ch("x"), LB>>, <<LB>>, <<RB>>, <<Ch("x")>>, <<>>}

\* characters other than braces around the body
Noise == TextsOver({Ch("x")}, MaxNoise)

\* choices[0].message.content of a detection response
DetectContents ==
  {pre \o body \o post : pre \in Noise, body \in Bodies, post \in Noise}
  \cup {<<Ch(" ")>> \o body \o <<Ch(" ")>> : body \in {<<LB, ProbOf(JsInt(42)), RB>>, <<>>}}

\* the JSON body of a response
Body(shape, content) == [shape |-> shape, content |-> content]
NoBody == Body("none", <<>>)
\* bodies that lack choices[0].message.content or hold null there, and a body
\* that is no object (a number)
MissingShapes ==
  {"noChoices", "emptyChoices", "noMessage", "noContent", "nullContent",
   "numberBody"}
BodiesOf(contents) ==
  {Body("text", c) : c \in contents}
  \cup {Body(sh, <<>>) : sh \in MissingShapes \cup {"nullBody", "numberContent"}}

\* how a call ends: fetch rejects ("network"), a non-OK status ("http", with
\* its error body), an OK status whose body is not JSON ("badjson"), or an OK
\* status with a JSON body
Response(status, body) == [status |-> status, body |-> body]
NoResponse == Response("none", NoBody)
Responses(contents) ==
  {Response("network", NoBody), Response("http", Body("noChoices", <<>>)),
   Response("badjson", NoBody)}
  \cup {Response("ok", b) : b \in BodiesOf(contents)}

\* ------------------------------------------------------------ the closure
\* an activation of handleHumanize: where it is suspended (pc), the values of
\* the render it was created in (input, tone, temperature), its locals
\* (apiKey, humanized), the request it awaits (req), and as history the
\* requests it has sent and whether the form was cleared since output was set
Request(payload, key) == [payload |-> payload, auth |-> key]
NoRequest ==
  Request([model |-> "", content |-> buildDetectPrompt(<<>>),
           temperature |-> 0, max_tokens |-> 0], NoKey)
NoRun ==
  [pc |-> "none", input |-> <<>>, tone |-> "", temperature |-> 0,
   apiKey |-> NoKey, humanized |-> <<>>, req |-> NoRequest,
   nRewrite |-> 0, nDetect |-> 0, cleared |-> FALSE]

NoAlert == ""
ValidationNotice == "Pega o escribe un texto primero."

Step(op, alert, prompted, answer, ended, run, resp) ==
  [op |-> op, alert |-> alert, prompted |-> prompted, answer |-> answer,
   ended |-> ended, run |-> run, resp |-> resp]
UserStep(op) == Step(op, NoAlert, FALSE, NoKey, "", NoRun, NoResponse)

\* --------------------------------------------------------------------- Init
Init ==
  /\ input = <<>>
  /\ output = <<>>
  /\ score = JsNull
  /\ reason = <<>>
  /\ loading = FALSE
  /\ mode = "humanize"
  /\ tone = "natural"
  /\ temperature = 7
  /\ apiKeyPrompted = FALSE
  /\ globalKey \in {NoKey, "gk"}
  /\ localKey \in {NoKey, "lk"}
  /\ sessionKey = NoKey
  /\ runs = <<>>
  /\ last = UserStep("init")

\* ------------------------------------------------------------ form controls
\* textarea onChange, line 203
setInput ==
  /\ \E text \in InputTexts : input' = text
  /\ last' = UserStep("setInput")
  /\ UNCHANGED <<output, score, reason, loading, mode, tone, temperature,
                 apiKeyPrompted, globalKey, localKey, sessionKey, runs>>

\* select onChange, line 174
setMode ==
  /\ \E m \in Modes : mode' = m
  /\ last' = UserStep("setMode")
  /\ UNCHANGED <<input, output, score, reason, loading, tone, temperature,
                 apiKeyPrompted, globalKey, localKey, sessionKey, runs>>

\* select onChange, line 180
setTone ==
  /\ \E tn \in Tones : tone' = tn
  /\ last' = UserStep("setTone")
  /\ UNCHANGED <<input, output, score, reason, loading, mode, temperature,
                 apiKeyPrompted, globalKey, localKey, sessionKey, runs>>

\* range onChange, line 194
setTemperature ==
  /\ \E temp \in Temperatures : temperature' = temp
  /\ last' = UserStep("setTemperature")
  /\ UNCHANGED <<input, output, score, reason, loading, mode, tone,
                 apiKeyPrompted, globalKey, localKey, sessionKey, runs>>

\* the Limpiar button, line 224 (it has no disabled attribute)
Clear ==
  /\ input' = <<>>
  /\ output' = <<>>
  /\ score' = JsNull
  /\ reason' = <<>>
  /\ runs' = [i \in DOMAIN runs |-> [runs[i] EXCEPT !.cleared = TRUE]]
  /\ last' = UserStep("clear")
  /\ UNCHANGED <<loading, mode, tone, temperature, apiKeyPrompted, globalKey,
                 localKey, sessionKey>>

\* handleCopy, lines 151-155 (its button has no disabled attribute): the
\* clipboard receives output
handleCopy ==
  /\ last' = Step("copy",
                  IF output = <<>> THEN "No hay texto para copiar."
                  ELSE "Copiado al portapapeles.",
                  FALSE, NoKey, "", NoRun, NoResponse)
  /\ UNCHANGED <<input, output, score, reason, loading, mode, tone,
                 temperature, apiKeyPrompted, globalKey, localKey, sessionKey,
                 runs>>

\* handleSave, lines 157-166 (its button has no disabled attribute): output
\* is downloaded as humanizado.txt
handleSave ==
  /\ last' = Step("save",
                  IF output = <<>> THEN "No hay texto para descargar."
                  ELSE NoAlert,
                  FALSE, NoKey, "", NoRun, NoResponse)
  /\ UNCHANGED <<input, output, score, reason, loading, mode, tone,
                 temperature, apiKeyPrompted, globalKey, localKey, sessionKey,
                 runs>>

\* ---------------------------------------------------------- handleHumanize
\* the button without its disabled attribute
StartAlwaysEnabled == TRUE

\* the button is rendered with disabled={loading}, lines 207-213
StartEnabled == ~loading

\* !input: the test without the trim
InputIsBlankNoTrim(text) == text = <<>>

\* !input.trim(), line 82
InputIsBlank(text) == Trim(text) = <<>>

\* localStorage consulted before the injected global
StoredKeyLocalFirst == IF ~Falsy(localKey) THEN localKey ELSE globalKey

\* window.__OPENAI_API_KEY__ || localStorage.getItem("openai_key"), line 83
StoredKey == IF ~Falsy(globalKey) THEN globalKey ELSE localKey

\* if (apiKey === null) return: only a cancelled prompt aborts
KeyDeclinedOnlyNull(answer) == answer = NoKey

\* if (!apiKey) return, line 86
KeyDeclined(answer) == Falsy(answer)

\* a click that leaves the previous score in place
KeepScore(s) == s

\* setScore(null), line 93
ResetScore(s) == JsNull

\* lines 81-106: from the click to the first await
handleHumanize ==
  /\ StartEnabled
  /\ \E answer \in PromptAnswers :
       LET needPrompt == Falsy(StoredKey)
           given == IF needPrompt THEN answer ELSE NoKey
           apiKey == IF needPrompt THEN answer ELSE StoredKey
           payload == RewritePayload(input, tone, temperature)
           run == [pc |-> "rewrite", input |-> input, tone |-> tone,
                   temperature |-> temperature, apiKey |-> apiKey,
                   humanized |-> <<>>, req |-> Request(payload, apiKey),
                   nRewrite |-> 1, nDetect |-> 0, cleared |-> FALSE]
       IN  IF InputIsBlank(input)
           THEN /\ last' = Step("start", ValidationNotice, FALSE, NoKey, "",
                                NoRun, NoResponse)
                /\ UNCHANGED <<input, output, score, reason, loading, mode,
                               tone, temperature, apiKeyPrompted, globalKey,
                               localKey, sessionKey, runs>>
           ELSE IF needPrompt /\ KeyDeclined(answer)
           THEN /\ last' = Step("start", NoAlert, TRUE, given, "", NoRun,
                                NoResponse)
                /\ UNCHANGED <<input, output, score, reason, loading, mode,
                               tone, temperature, apiKeyPrompted, globalKey,
                               localKey, sessionKey, runs>>
           ELSE /\ sessionKey' = IF needPrompt THEN answer ELSE sessionKey
                /\ apiKeyPrompted' = (needPrompt \/ apiKeyPrompted)
                /\ loading' = TRUE
                /\ output' = <<>>
                /\ score' = ResetScore(score)
                /\ reason' = <<>>
                /\ runs' = Append(runs, run)
                /\ last' = Step("start", NoAlert, needPrompt, given, "", run,
                                NoResponse)
                /\ UNCHANGED <<input, mode, tone, temperature, globalKey,
                               localKey>>

\* -------------------------------------------------------------- callOpenAI
\* callOpenAI without its res.ok test
CallFailsNoStatusCheck(resp) == resp.status \in {"network", "badjson"}

\* lines 65-78: fetch rejects, or !res.ok throws, or res.json() rejects
CallFails(resp) == resp.status # "ok"

\* err.message of the Error the call ends with
CallError(resp) ==
  CASE resp.status = "http" -> "OpenAI error"
    [] resp.status = "network" -> "Failed to fetch"
    [] OTHER -> "Unexpected token"

\* data.choices?.[0]?.message?.content?.trim() || "", lines 107 and 119:
\* reading .choices of null throws, and so does calling .trim of a content
\* that is no string; an absent link of the chain gives ""
ContentOf(body) ==
  IF body.shape \in {"nullBody", "numberContent"}
  THEN [throws |-> TRUE, text |-> <<>>]
  ELSE IF body.shape = "text"
  THEN [throws |-> FALSE, text |-> Trim(body.content)]
  ELSE [throws |-> FALSE, text |-> <<>>]

\* the detection request built from the rewritten text
DetectPayloadOfOutput(run) ==
  [model |-> "gpt-4o-mini", content |-> buildDetectPrompt(run.humanized),
   temperature |-> 0, max_tokens |-> 200]

\* lines 111-116: the detection request of an activation
DetectPayload(run) ==
  [model |-> "gpt-4o-mini", content |-> buildDetectPrompt(run.input),
   temperature |-> 0, max_tokens |-> 200]

\* a catch block that also calls setOutput("")
OutputClearedOnCatch(out) == <<>>

\* lines 143-145: the catch block logs and alerts; it sets no state, so the
\* output is what it was
OutputAfterCatch(out) == out

\* setLoading(false) at the end of the try block only
LoadingLeftByCatch(l) == l

\* finally { setLoading(false) }, lines 146-148, after the catch block
LoadingAfterCatch(l) == FALSE

\* alert("Error: " + err.message), line 145
ErrorAlert(resp) ==
  IF CallFails(resp) THEN "Error: " \o CallError(resp) ELSE "Error: TypeError"

RemoveAt(s, i) == SubSeq(s, 1, i - 1) \o SubSeq(s, i + 1, Len(s))

\* catch and finally, lines 143-148
Fail(i, resp) ==
  /\ output' = OutputAfterCatch(output)
  /\ loading' = LoadingAfterCatch(loading)
  /\ runs' = RemoveAt(runs, i)
  /\ last' = Step(IF runs[i].pc = "rewrite" THEN "rewriteResponse"
                  ELSE "detectResponse",
                  ErrorAlert(resp), FALSE, NoKey, "failed", runs[i], resp)
  /\ UNCHANGED <<input, score, reason, mode, tone, temperature,
                 apiKeyPrompted, globalKey, localKey, sessionKey>>

\* lines 106-118: the first await resumes, the call ending as one of resps
rewriteResumes(resps) ==
  \E i \in DOMAIN runs :
    /\ runs[i].pc = "rewrite"
    /\ \E resp \in resps :
         LET data == ContentOf(resp.body)
             run == [runs[i] EXCEPT !.pc = "detect",
                                    !.humanized = data.text,
                                    !.cleared = FALSE]
             sent == [run EXCEPT !.req = Request(DetectPayload(run), run.apiKey),
                                 !.nDetect = @ + 1]
         IN  IF CallFails(resp) \/ data.throws
             THEN Fail(i, resp)
             ELSE /\ output' = data.text
                  /\ runs' = [runs EXCEPT ![i] = sent]
                  /\ last' = Step("rewriteResponse", NoAlert, FALSE, NoKey, "",
                                  sent, resp)
                  /\ UNCHANGED <<input, score, reason, loading, mode, tone,
                                 temperature, apiKeyPrompted, globalKey,
                                 localKey, sessionKey>>

\* lines 118-148: the second await resumes, the call ending as one of resps
detectResumes(resps) ==
  \E i \in DOMAIN runs :
    /\ runs[i].pc = "detect"
    /\ \E resp \in resps :
         LET data == ContentOf(resp.body)
             result == DetectResult(data.text)
         IN  IF CallFails(resp) \/ data.throws
             THEN Fail(i, resp)
             ELSE /\ score' = result.score
                  /\ reason' = result.reason
                  /\ loading' = FALSE
                  /\ runs' = RemoveAt(runs, i)
                  /\ last' = Step("detectResponse", NoAlert, FALSE, NoKey,
                                  "completed", runs[i], resp)
                  /\ UNCHANGED <<input, output, mode, tone, temperature,
                                 apiKeyPrompted, globalKey, localKey,
                                 sessionKey>>

rewriteResponse == rewriteResumes(Responses(RewriteContents))

detectResponse == detectResumes(Responses(DetectContents))

\* --------------------------------------------------------------------- Next
\* Spec: the user types, clears and starts runs, and the calls come back; the
\* three selectors stay as they are first rendered
Next ==
  \/ setInput
  \/ Clear
  \/ handleHumanize
  \/ rewriteResponse
  \/ detectResponse

Spec == Init /\ [][Next]_vars

\* one content per way a run can go on from a response: an empty text, a
\* plain text, a scored answer and an answer that does not parse
ReturnedRewrites == {<<>>, <<Ch("h")>>}
ReturnedDetections ==
  {<<>>, <<Ch("x")>>, <<LB, ProbOf(JsInt(42)), Comma, ExplTok("ok"), RB>>,
   <<LB, Ch("x"), RB>>}

rewriteReturns == rewriteResumes(Responses(ReturnedRewrites))

detectReturns == detectResumes(Responses(ReturnedDetections))

\* SpecButtons: all four buttons of the form in use, with those responses
NextButtons ==
  \/ setInput
  \/ Clear
  \/ handleCopy
  \/ handleSave
  \/ handleHumanize
  \/ rewriteReturns
  \/ detectReturns

SpecButtons == Init /\ [][NextButtons]_vars

\* every outstanding call eventually returns (with a response, a refusal or
\* a network error), so the activation suspended at line 106 or 118 resumes
SpecLive == SpecButtons /\ WF_vars(rewriteReturns) /\ WF_vars(detectReturns)

\* ------------------------------------------------------------------ claims
\* the step just taken resumed the first / the second await
AfterRewrite == last.op = "rewriteResponse"
AfterDetect == last.op = "detectResponse"

\* C1: when the rewrite call fails (fetch rejects, a non-OK status, or a
\* body that cannot be read), the run ends in failure with an error notice,
\* and it has sent no detection request; a run still waiting for its rewrite
\* response has sent none either.
C1_RewriteFailureSendsNoDetection ==
  /\ (AfterRewrite /\ last.resp.status # "ok") =>
       /\ last.ended = "failed"
       /\ last.alert # NoAlert
       /\ ~loading
       /\ runs = <<>>
  /\ (AfterRewrite /\ last.ended = "failed") => last.run.nDetect = 0
  /\ \A i \in DOMAIN runs : runs[i].pc = "rewrite" => runs[i].nDetect = 0

C1_Witness ==
  /\ AfterRewrite
  /\ last.resp.status = "http"
  /\ last.ended = "failed"
  /\ last.run.nRewrite = 1

\* C2 as stated: after a run whose rewrite call succeeded and whose detection
\* call failed, the output is empty.
C2_OutputEmptyAfterDetectFailure ==
  (AfterDetect /\ last.ended = "failed") => output = <<>>

\* C2 amended: after a run whose rewrite call succeeded and whose detection
\* call failed, the run has ended in failure (error notice, loading reset,
\* no score, no explanation), and the failure has not removed the humanized
\* text: the output is still the trimmed text of the rewrite response, unless
\* the user cleared the form after it was stored.
C2_OutputKeptAfterDetectFailure ==
  (AfterDetect /\ last.ended = "failed") =>
    /\ last.alert # NoAlert
    /\ ~loading
    /\ score = JsNull
    /\ reason = <<>>
    /\ output = IF last.run.cleared THEN <<>> ELSE last.run.humanized

C2_Witness ==
  /\ AfterDetect
  /\ last.ended = "failed"
  /\ last.resp.status = "http"
  /\ ~last.run.cleared
  /\ output = <<Ch("h")>>

\* C3: the stored score is null or an integer in 0..100.
C3_ScoreInRange ==
  score = JsNull \/ (score.k = "int" /\ score.n \in 0..100)

\* C4: a click on the start button while the input is empty or only
\* whitespace changes nothing of the component or the stores, shows no
\* prompt, sends no request, and alerts the validation notice.
C4_BlankInputStartIsInert ==
  [][(last'.op = "start" /\ Trim(input) = <<>>) =>
       /\ UNCHANGED <<input, output, score, reason, loading, apiKeyPrompted,
                      globalKey, localKey, sessionKey, runs>>
       /\ ~loading'
       /\ ~last'.prompted
       /\ last'.alert = ValidationNotice]_vars

C4_Witness ==
  /\ last.op = "start"
  /\ last.alert = ValidationNotice
  /\ input = <<Ch(" ")>>
  /\ runs = <<>>

\* C5: once the session store holds the credential the user supplied at the
\* prompt, no later click on the start button prompts again.
C5_NoSecondPrompt ==
  [][(sessionKey # NoKey /\ last'.op = "start") => ~last'.prompted]_vars

\* C6: at most one run is in flight, so at most one request is outstanding,
\* and a run is in flight only while loading is true (when the start button
\* is disabled); loading is true only while a run is in flight.
C6_AtMostOneRun ==
  /\ Len(runs) <= 1
  /\ loading <=> (Len(runs) = 1)

C6_Witness ==
  /\ loading
  /\ Len(runs) = 1
  /\ runs[1].pc = "detect"
  /\ last.op = "setInput"

\* C7: the detection request of a run holds the detection prompt built from
\* the input captured when the run was started (the run's input is the
\* textarea's content at the click), whatever the textarea or the rewritten
\* text hold by then.
C7_DetectsOriginalInput ==
  /\ (last.op = "start" /\ last.run.pc = "rewrite") => last.run.input = input
  /\ \A i \in DOMAIN runs :
       runs[i].pc = "detect" =>
         /\ runs[i].nDetect = 1
         /\ runs[i].req.payload.content.template = "detect"
         /\ runs[i].req.payload.content.text = runs[i].input

C7_Witness ==
  /\ Len(runs) = 1
  /\ runs[1].pc = "detect"
  /\ runs[1].input = <<Ch("a")>>
  /\ runs[1].humanized = <<Ch("h")>>
  /\ input = <<>>
  /\ runs[1].req.payload.content.text = <<Ch("a")>>

\* noise: characters other than braces, whitespace included
ClaimNoise == TextsOver({Ch("x"), Ch(" ")}, MaxNoise)

\* C8: when both calls succeed and the detection text is one well-formed
\* object with an integer probability in 0..100 and a string explanation,
\* possibly surrounded by noise, the run ends completed with the output equal
\* to the trimmed rewrite content, the score equal to the probability and the
\* explanation equal to the explanation string.
C8_CompletedWithScore ==
  \A pre \in ClaimNoise, post \in ClaimNoise, n \in {0, 42, 100},
     e \in ExplValues :
    (/\ AfterDetect
     /\ last.resp.status = "ok"
     /\ last.resp.body.shape = "text"
     /\ last.resp.body.content =
          pre \o <<LB, ProbOf(JsInt(n)), Comma, ExplTok(e), RB>> \o post)
    => /\ last.ended = "completed"
       /\ output = last.run.humanized
       /\ score = JsInt(n)
       /\ reason = StrText(e)

\* a probability the detector panel can show: an integer in 0..100
Usable(v) == v.k = "int" /\ v.n \in 0..100

\* C9: when both calls succeed the run ends completed with no error notice,
\* whatever the detection text is, and a text that does not parse to an
\* object with a usable probability leaves the score absent.
C9_DetectTextNeverFailsRun ==
  (AfterDetect /\ last.resp.status = "ok") =>
    /\ last.ended = "completed"
    /\ last.alert = NoAlert
    /\ (score # JsNull => Usable(score))

\* C10: when the prompt is shown and the user gives no credential, the click
\* changes nothing: loading stays false, output, score and explanation are
\* what they were, the session store is not written, no request is sent.
C10_DeclinedPromptAborts ==
  [][(last'.op = "start" /\ last'.prompted /\ Falsy(last'.answer)) =>
       /\ UNCHANGED <<input, output, score, reason, loading, apiKeyPrompted,
                      globalKey, localKey, sessionKey, runs>>
       /\ ~loading'
       /\ last'.alert = NoAlert]_vars

C10_Witness ==
  /\ last.op = "start"
  /\ last.prompted
  /\ last.answer = NoKey
  /\ output = <<Ch("h")>>
  /\ runs = <<>>

\* the result panel shows nothing
ResultsEmpty == output = <<>> /\ score = JsNull /\ reason = <<>>

\* C11: once the user has cleared the form, humanized text, score and
\* explanation stay empty until the user starts a new run: the step that
\* follows a clear, unless it is a new start, leaves all three empty, also
\* when the clear came while a run was Processing and the step is one of its
\* responses arriving.
C11_ClearedStaysIdle ==
  [][(last.op = "clear" /\ last'.op # "start") =>
       (output' = <<>> /\ score' = JsNull /\ reason' = <<>>)]_vars

\* C12: a run sends exactly one rewrite request and at most one detection
\* request, never a second of either; the detection request is sent only
\* when the rewrite call has come back with an OK status and a readable
\* content, and it is the request the run then awaits.
C12_SequentialNoRetry ==
  /\ \A i \in DOMAIN runs :
       /\ runs[i].nRewrite = 1
       /\ runs[i].pc = "rewrite" =>
            (runs[i].nDetect = 0 /\ runs[i].req.payload.content.template = "humanize")
       /\ runs[i].pc = "detect" =>
            (runs[i].nDetect = 1 /\ runs[i].req.payload.content.template = "detect")
  /\ last.ended # "" => (last.run.nRewrite = 1 /\ last.run.nDetect <= 1)
  /\ (AfterRewrite /\ last.run.nDetect = 1) =>
       /\ last.resp.status = "ok"
       /\ last.resp.body.shape \notin {"nullBody", "numberContent"}
       /\ last.ended = ""
  /\ (AfterDetect /\ last.ended # "") => last.run.nDetect = 1

C12_Witness ==
  /\ AfterDetect
  /\ last.ended = "failed"
  /\ last.resp.status = "network"
  /\ last.run.nRewrite = 1
  /\ last.run.nDetect = 1

\* every outstanding call eventually returns (with a response, a refusal or
\* a network error), so the activation suspended at line 106 or 118 resumes
\* C13: provided each call eventually returns, every run that has entered
\* Processing eventually leaves it: loading is false again, no activation is
\* left suspended and the start button is enabled, whether the run
\* succeeded, a call failed or handling a response threw.
C13_ProcessingEnds == loading ~> (~loading /\ runs = <<>> /\ StartEnabled)

C13_Witness ==
  /\ AfterDetect
  /\ last.ended = "failed"
  /\ last.resp.status = "ok"
  /\ last.resp.body.shape = "nullBody"
  /\ ~loading
  /\ runs = <<>>

\* what the user does with the buttons of the form
ButtonOps == {"start", "copy", "clear", "save"}

\* C14: while a run is Processing no button of the form acts: no step taken
\* while loading is a start, a copy, a clear or a download, so output, score
\* and explanation are written by the run alone.
C14_ButtonsInertWhileProcessing ==
  [][loading =>
       /\ last'.op \notin ButtonOps
       /\ (last'.op \notin {"rewriteResponse", "detectResponse"} =>
             UNCHANGED <<output, score, reason>>)]_vars

\* C15: an OK response whose body is not of the shape
\* choices[0].message.content (with a string there) gives the empty text and
\* does not fail the run.
C15_ShapeDeviationGivesEmptyText ==
  ((AfterRewrite \/ AfterDetect) /\ last.resp.status = "ok"
     /\ last.resp.body.shape # "text") =>
    /\ last.ended # "failed"
    /\ last.alert = NoAlert
    /\ AfterRewrite => (last.run.humanized = <<>> /\ output = <<>>)
    /\ AfterDetect => (score = JsNull /\ reason = <<>>)

\* no "{" of the text stands before a "}" of it: the text has no "{", or no
\* "}", or its first "{" comes after its last "}"
NoBracePair(text) ==
  ~ \E i \in 1..Len(text), j \in 1..Len(text) :
      i < j /\ text[i].t = "lb" /\ text[j].t = "rb"

\* C16: when the (trimmed) detection text has no "{", or no "}", or its first
\* "{" after its last "}", the run completes without an error notice, the
\* score is absent and the explanation is that text.
C16_NoBracesIsUnscored ==
  (AfterDetect /\ last.resp.status = "ok" /\ last.resp.body.shape = "text"
     /\ NoBracePair(last.resp.body.content)) =>
    /\ last.ended = "completed"
    /\ last.alert = NoAlert
    /\ score = JsNull
    /\ reason = Trim(last.resp.body.content)

C16_Witness ==
  /\ AfterDetect
  /\ last.resp.body.content = <<RB, Ch("x"), LB>>
  /\ last.ended = "completed"
  /\ reason = <<RB, Ch("x"), LB>>

\* C17: a run's credential is the injected global value if there is one,
\* else the localStorage value if there is one, else the prompt's answer; the
\* prompt is shown exactly when both are absent; and every request of the
\* run, rewrite and detection, carries that credential.
C17_CredentialPriority ==
  /\ (last.op = "start" /\ last.alert # ValidationNotice) =>
       (last.prompted <=> (globalKey = NoKey /\ localKey = NoKey))
  /\ (last.op = "start" /\ last.run.pc = "rewrite") =>
       last.run.apiKey = IF globalKey # NoKey THEN globalKey
                         ELSE IF localKey # NoKey THEN localKey
                         ELSE last.answer
  /\ \A i \in DOMAIN runs :
       /\ runs[i].req.auth = runs[i].apiKey
       /\ runs[i].apiKey = IF globalKey # NoKey THEN globalKey
                           ELSE IF localKey # NoKey THEN localKey
                           ELSE sessionKey

C17_Witness ==
  /\ globalKey = "gk"
  /\ localKey = "lk"
  /\ Len(runs) = 1
  /\ runs[1].pc = "detect"
  /\ runs[1].req.auth = "gk"

\* C18: a run in flight has discarded the earlier results: until its rewrite
\* response arrives the panel is empty, and until its detection response
\* arrives the score is absent, the explanation empty and the output its own
\* rewritten text (or empty); a score on display therefore stands beside the
\* rewritten text of the run that produced it (or none), never an earlier one.
C18_ResultsOfLatestRun ==
  /\ (last.op = "start" /\ last.run.pc = "rewrite") => ResultsEmpty
  /\ \A i \in DOMAIN runs :
       /\ runs[i].pc = "rewrite" => ResultsEmpty
       /\ runs[i].pc = "detect" =>
            /\ score = JsNull
            /\ reason = <<>>
            /\ output \in {runs[i].humanized, <<>>}
  /\ (AfterDetect /\ last.ended = "completed") =>
       output \in {last.run.humanized, <<>>}

C18_Witness ==
  /\ Len(runs) = 1
  /\ runs[1].pc = "rewrite"
  /\ last.op = "start"
  /\ last.prompted
  /\ last.answer = "k2"
  /\ sessionKey = "k2"
  /\ ResultsEmpty

\* the form with its three selectors in use and the key injected by the page
InitControls == Init /\ globalKey = "gk" /\ localKey = NoKey

NextControls ==
  \/ setInput
  \/ setMode
  \/ setTone
  \/ setTemperature
  \/ handleHumanize
  \/ rewriteReturns
  \/ detectReturns

SpecControls == InitControls /\ [][NextControls]_vars

\* C19: the requests of a run are made of the input, tone and temperature
\* on the form at the click and of nothing else: the rewrite prompt carries
\* that tone, the detection prompt no tone, and the mode selector, whatever
\* it shows at the click or later, changes neither payload.
C19_ModeIgnoredToneUsed ==
  /\ (last.op = "start" /\ last.run.pc = "rewrite") =>
       /\ last.run.input = input
       /\ last.run.tone = tone
       /\ last.run.temperature = temperature
  /\ \A i \in DOMAIN runs :
       /\ runs[i].pc = "rewrite" =>
            runs[i].req.payload =
              [model |-> "gpt-4o-mini",
               content |-> [template |-> "humanize", tone |-> runs[i].tone,
                            text |-> runs[i].input],
               temperature |-> runs[i].temperature, max_tokens |-> 1200]
       /\ runs[i].pc = "detect" =>
            runs[i].req.payload =
              [model |-> "gpt-4o-mini",
               content |-> [template |-> "detect", tone |-> "",
                            text |-> runs[i].input],
               temperature |-> 0, max_tokens |-> 200]

C19_Witness ==
  /\ mode = "paraphrase"
  /\ last.op = "start"
  /\ Len(runs) = 1
  /\ runs[1].pc = "rewrite"
  /\ runs[1].tone = "formal"
  /\ runs[1].req.payload.content.tone = "formal"

====
